---------------------------- MODULE Spec2Model ----------------------------
(***************************************************************************)
(* Model of the ssle_test deployment and analysis scripts:                 *)
(*   - the aggregation pipeline of src/avg_time.py ("root"),               *)
(*     src/lan_results/avg_time.py ("lan") and                             *)
(*     src/251120/wan_results/analyse.py ("wan");                          *)
(*   - the launch pipeline of src/run.py.                                  *)
(*                                                                         *)
(* Text is a sequence of one-character strings.  A time is an integer      *)
(* number of ticks, one tick being 10^-4 ms, so that 10.0 ms is 100000 and *)
(* a value rounded to 3 decimal places is a multiple of 10 ticks.          *)
(***************************************************************************)
EXTENDS Integers, Sequences, FiniteSets, TLC

(* ------------------------------ bounds --------------------------------- *)

\* Largest number of files in the scanned directory.
MaxFiles == 2

(* --------------------------- text helpers ------------------------------ *)

DigitChars == <<"0", "1", "2", "3", "4", "5", "6", "7", "8", "9">>

IsDigit(c) == \E d \in 1..10 : DigitChars[d] = c

DigitVal(c) == (CHOOSE d \in 1..10 : DigitChars[d] = c) - 1

\* str.find(ch, start): the least 0-based index >= start holding ch, else -1.
Find(s, ch, start) ==
    LET hits == {k \in 0..(Len(s) - 1) : k >= start /\ s[k + 1] = ch}
    IN  IF hits = {} THEN -1 ELSE CHOOSE k \in hits : \A j \in hits : k <= j

\* s[a:b] of Python for a >= 0: a negative b counts from the end.
Slice(s, a, b) ==
    LET hi == IF b < 0 THEN Len(s) + b ELSE IF b > Len(s) THEN Len(s) ELSE b
    IN  IF a >= hi THEN <<>> ELSE SubSeq(s, a + 1, hi)

RECURSIVE DigitsValue(_)
DigitsValue(s) ==
    IF s = <<>> THEN 0
    ELSE 10 * DigitsValue(SubSeq(s, 1, Len(s) - 1)) + DigitVal(s[Len(s)])

\* int(text): an optional sign and at least one digit, else ValueError.
ParseInt(s) ==
    LET signed == s # <<>> /\ s[1] \in {"-", "+"}
        body   == IF signed THEN Tail(s) ELSE s
    IN  IF body = <<>> \/ \E k \in 1..Len(body) : ~IsDigit(body[k])
        THEN [ok |-> FALSE, value |-> 0]
        ELSE [ok |-> TRUE,
              value |-> IF signed /\ s[1] = "-" THEN 0 - DigitsValue(body)
                        ELSE DigitsValue(body)]

\* fnmatch of a name against a pattern whose only wildcard is "*".
RECURSIVE GlobMatch(_, _)
GlobMatch(pat, s) ==
    IF pat = <<>> THEN s = <<>>
    ELSE IF pat[1] = "*"
         THEN \E k \in 0..Len(s) : GlobMatch(Tail(pat), SubSeq(s, k + 1, Len(s)))
         ELSE s # <<>> /\ s[1] = pat[1] /\ GlobMatch(Tail(pat), Tail(s))

BenchmarkResults ==
    <<"b", "e", "n", "c", "h", "m", "a", "r", "k", "_",
      "r", "e", "s", "u", "l", "t", "s", "_">>

DotCsv == <<".", "c", "s", "v">>

\* The glob pattern of each script.
file_pattern(v) ==
    CASE v = "root" -> <<"p", "*", "_", "i", "d", "*">> \o DotCsv
      [] v = "lan"  -> BenchmarkResults \o <<"p", "*", "_", "i", "d", "*", "_", "l", "a", "n">> \o DotCsv
      [] v = "wan"  -> BenchmarkResults \o <<"p", "*", "_", "i", "d", "*", "_", "w", "a", "n">> \o DotCsv

\* The party count of a file name: the text between the first "p" and the
\* next "_", converted by int().
ParsePartyCount(filename) ==
    LET p_index          == Find(filename, "p", 0) + 1
        underscore_index == Find(filename, "_", p_index)
    IN  ParseInt(Slice(filename, p_index, underscore_index))


(* ------------------------- statistics helpers -------------------------- *)

RECURSIVE Sum(_)
Sum(s) == IF s = <<>> THEN 0 ELSE Head(s) + Sum(Tail(s))

Range(s) == {s[k] : k \in 1..Len(s)}

Min(s) == CHOOSE m \in Range(s) : \A x \in Range(s) : m <= x

Max(s) == CHOOSE m \in Range(s) : \A x \in Range(s) : m >= x

\* Round3 as it would be if the mean were cut, not rounded, to 3 decimals.
Round3Truncated(times) == {10 * (Sum(times) \div (10 * Len(times)))}

\* round(sum(times) / len(times), 3) in ticks.  The quotient is rounded to
\* the nearest multiple of 10 ticks; when the exact mean lies half-way
\* between two multiples the binary value of the float quotient decides,
\* so either neighbour can come out.
Round3(times) ==
    LET d == 10 * Len(times)
        q == Sum(times) \div d
        r == Sum(times) % d
    IN  IF 2 * r < d THEN {10 * q}
        ELSE IF 2 * r > d THEN {10 * (q + 1)}
        ELSE {10 * q, 10 * (q + 1)}

\* The average reported for a sample list: 0.0 when it is empty.
AvgOf(times) == IF times = <<>> THEN {0} ELSE Round3(times)

\* int(round(math.log2(n))) for n >= 1: the k with 2^(k-1/2) <= n < 2^(k+1/2).
RoundLog2(n) == CHOOSE k \in 0..15 : 4^k <= 2 * n * n /\ n * n < 2 * 4^k

\* All sequences that take their k-th element from the k-th set.
RECURSIVE Choices(_)
Choices(sets) ==
    IF sets = <<>> THEN {<<>>}
    ELSE {<<h>> \o t : h \in Head(sets), t \in Choices(Tail(sets))}

(* ------------------------- files of the model -------------------------- *)

\* {prefix}p{token}_id{id}{mode}.csv
ResultName(prefix, token, id, mode) ==
    prefix \o <<"p">> \o token \o <<"_", "i", "d", id>> \o mode \o DotCsv

Lan == <<"_", "l", "a", "n">>
Wan == <<"_", "w", "a", "n">>

FileNames ==
    {ResultName(<<>>, <<"4">>, "0", Lan),
     ResultName(<<>>, <<"4">>, "1", Lan),
     ResultName(<<"p", "r", "e", "f", "i", "x", "_">>, <<"8">>, "3", Wan),
     ResultName(<<>>, <<"x">>, "0", <<>>),
     ResultName(BenchmarkResults, <<"4">>, "0", Lan),
     ResultName(BenchmarkResults, <<"4">>, "1", Lan),
     ResultName(BenchmarkResults, <<"8">>, "0", Lan),
     ResultName(BenchmarkResults, <<"1">>, "0", Wan),
     ResultName(BenchmarkResults, <<"5">>, "0", Wan),
     ResultName(BenchmarkResults, <<"8">>, "0", Wan),
     ResultName(BenchmarkResults, <<"8">>, "3", Wan),
     ResultName(BenchmarkResults, <<"0">>, "0", Wan),
     ResultName(BenchmarkResults, <<"2", "5", "6">>, "0", Wan)}

Row(r, t, send, recv) == [Round |-> r, Time |-> t, Send |-> send, Recv |-> recv]

\* What pd.read_csv can find in a file: unreadable, or a frame with its
\* columns (Round, one timing column, npeer SendToPeer/RecvFromPeer pairs).
ScenarioFrame ==
    [parses |-> TRUE, hasRound |-> TRUE, timeCol |-> "Time_ms", npeer |-> 0,
     rows |-> <<Row(1, 100000, <<>>, <<>>), Row(1, 200000, <<>>, <<>>),
                Row(2, 300000, <<>>, <<>>), Row(2, 400000, <<>>, <<>>)>>]

ZeroOneFrame ==
    [parses |-> TRUE, hasRound |-> TRUE, timeCol |-> "Time_ms", npeer |-> 0,
     rows |-> <<Row(0, 100003, <<>>, <<>>), Row(1, 200005, <<>>, <<>>),
                Row(1, 200010, <<>>, <<>>)>>]

PeerFrame3 ==
    [parses |-> TRUE, hasRound |-> TRUE, timeCol |-> "TotalTime_ms", npeer |-> 3,
     rows |-> <<Row(1, 100000, <<10000, 20000, 30000>>, <<11000, 21000, 31005>>),
                Row(1, 200004, <<10010, 20004, 30000>>, <<11000, 21006, 31000>>),
                Row(2, 300000, <<40000, 50000, 60000>>, <<41000, 51000, 61000>>)>>]

PeerFrame2 ==
    [parses |-> TRUE, hasRound |-> TRUE, timeCol |-> "TotalTime_ms", npeer |-> 2,
     rows |-> <<Row(1, 120000, <<12000, 22000>>, <<13000, 23000>>),
                Row(2, 320006, <<42000, 52000>>, <<43000, 53000>>)>>]

PeerFrame8 ==
    [parses |-> TRUE, hasRound |-> TRUE, timeCol |-> "TotalTime_ms", npeer |-> 8,
     rows |-> <<Row(1, 150000, <<1000, 2000, 3000, 4000, 5000, 6000, 7000, 8000>>,
                              <<1100, 2100, 3100, 4100, 5100, 6100, 7100, 8100>>)>>]

NoRoundFrame ==
    [parses |-> TRUE, hasRound |-> FALSE, timeCol |-> "Time_ms", npeer |-> 0,
     rows |-> <<Row(1, 100000, <<>>, <<>>)>>]

Unreadable ==
    [parses |-> FALSE, hasRound |-> FALSE, timeCol |-> "", npeer |-> 0, rows |-> <<>>]

Frames ==
    {ScenarioFrame, ZeroOneFrame, PeerFrame3, PeerFrame2, PeerFrame8, NoRoundFrame,
     Unreadable}

\* A directory listing: distinct names in the order glob.glob yields them.
Directories ==
    {d \in UNION {[1..n -> FileNames] : n \in 0..MaxFiles} :
        \A i, j \in 1..Len(d) : i # j => d[i] # d[j]}

Variants == {"root", "lan", "wan"}

\* round1_marker as it would be if every script read 0-based round markers.
round1_marker_zero(v) == 0

\* The Round marker each script reads as its first and second round.
round1_marker(v) == IF v = "root" THEN 0 ELSE 1

round2_marker(v) == IF v = "root" THEN 1 ELSE 2

\* The timing column each script reads.
time_column(v) == IF v = "wan" THEN "TotalTime_ms" ELSE "Time_ms"

\* df[df["Round"] == marker][timing column].tolist()
RoundTimes(df, marker) ==
    LET sel == SelectSeq(df.rows, LAMBDA r : r.Round = marker)
    IN  [k \in 1..Len(sel) |-> sel[k].Time]

\* df[df["Round"] == marker]["SendToPeer{i}_ms"].tolist(), i 0-based
RoundSend(df, marker, i) ==
    LET sel == SelectSeq(df.rows, LAMBDA r : r.Round = marker)
    IN  [k \in 1..Len(sel) |-> sel[k].Send[i + 1]]

RoundRecv(df, marker, i) ==
    LET sel == SelectSeq(df.rows, LAMBDA r : r.Round = marker)
    IN  [k \in 1..Len(sel) |-> sel[k].Recv[i + 1]]

\* FileFails as it would be if selecting on a missing Round column did not
\* raise.
FileFailsUnlessRoundMissing(v, df, logn) ==
    \/ ~df.parses
    \/ df.timeCol # time_column(v)
    \/ v = "wan" /\ logn > df.npeer

\* Whether the body of the per-file try block raises for this frame.
FileFails(v, df, logn) ==
    \/ ~df.parses
    \/ ~df.hasRound
    \/ df.timeCol # time_column(v)
    \/ v = "wan" /\ logn > df.npeer

(* ------------------- aggregation pipeline: state ----------------------- *)

VARIABLES
    variant,            \* which of the three analysis scripts runs
    dir,                \* the names in the scanned directory, in glob order
    pc,                 \* position of the script
    files,              \* glob.glob(file_pattern)
    fi,                 \* index of the file the current loop is at
    party_groups,       \* num_parties -> list of files
    unparsed,           \* files whose name gave no party count (warned about)
    sorted_party_nums,  \* sorted(party_groups.keys())
    gi,                 \* index of the group the outer loop is at
    log_n,              \* wan: number of peer columns of the current group
    frames,             \* what read_csv found in each file of the current group
    round1_times,
    round2_times,
    round1_send_times,
    round1_recv_times,
    round2_send_times,
    round2_recv_times,
    results,            \* num_parties -> statistics
    csv                 \* the written summary file: header and text rows

aggVars ==
    <<variant, dir, pc, files, fi, party_groups, unparsed, sorted_party_nums,
      gi, log_n, frames, round1_times, round2_times, round1_send_times,
      round1_recv_times, round2_send_times, round2_recv_times, results, csv>>

(* --------------------- launch pipeline: state -------------------------- *)

VARIABLES
    lpc,             \* position of run.py
    env,             \* dependencies met, CONFIG_URL / PROGRAM_URL set, NETWORK_MODE
    program_exists,  \* whether the file LOCAL_PROGRAM exists
    config,          \* the file LOCAL_CONFIG
    config_valid,
    main_num_parties, \* num_parties of main()
    local_ip,
    methods,         \* get_local_ip: what each of its two methods did
    tried,           \* get_local_ip: the methods it called, in order
    found,           \* what find_party_id returned
    party_id,
    success,         \* what run_benchmark returned
    upload_success,  \* what upload_results returned
    exit_code,       \* status passed to sys.exit, NotExited while running
    events,          \* downloads, commands and failures logged so far, in order
    cwd,             \* names in the working directory when results are uploaded
    upload_files,    \* files of the upload batch
    ui,              \* index of the batch file the upload loop is at
    success_count,
    fail_count,
    attempts,        \* what each upload_to_dufs call returned, per batch index
    last_upload      \* probes, requests and result of the latest upload_to_dufs

launchVars ==
    <<lpc, env, program_exists, config, config_valid, main_num_parties,
      local_ip, methods, tried,
      found, party_id, success, upload_success, exit_code, events>>

uploadVars ==
    <<cwd, upload_files, ui, success_count, fail_count, attempts, last_upload>>

vars == <<aggVars, launchVars, uploadVars>>

NotExited == 0 - 1

NoConfig == [exists |-> FALSE, readable |-> FALSE, lines |-> <<>>]

\* get_local_ip has not been called.
NoMethods == [hostname |-> [raised |-> TRUE, ip |-> <<>>],
              connection |-> [raised |-> TRUE, ip |-> <<>>]]

NoUpload == [exists |-> FALSE, requests |-> <<>>, result |-> FALSE]

\* The launch script is not running.
LaunchIdle ==
    /\ lpc = "idle"
    /\ env = [DEPENDENCIES |-> TRUE, CONFIG_URL |-> FALSE, PROGRAM_URL |-> FALSE,
              NETWORK_MODE |-> "lan"]
    /\ program_exists = FALSE
    /\ config = NoConfig
    /\ config_valid = FALSE
    /\ main_num_parties = 0
    /\ local_ip = <<>>
    /\ methods = NoMethods
    /\ tried = <<>>
    /\ found = [none |-> TRUE, value |-> 0]
    /\ party_id = 0
    /\ success = FALSE
    /\ upload_success = FALSE
    /\ exit_code = NotExited
    /\ events = <<>>

\* No upload batch is under way.
UploadIdle ==
    /\ cwd = <<>>
    /\ upload_files = <<>>
    /\ ui = 1
    /\ success_count = 0
    /\ fail_count = 0
    /\ attempts = <<>>
    /\ last_upload = NoUpload


EmptyMap == [k \in {} |-> <<>>]

NoCsv == [header |-> <<>>, rows |-> <<>>]

\* Sorted as it would be with reverse=True.
RECURSIVE SortedDescending(_)
SortedDescending(keys) ==
    IF keys = {} THEN <<>>
    ELSE LET m == CHOOSE x \in keys : \A y \in keys : x >= y
         IN  <<m>> \o SortedDescending(keys \ {m})

\* sorted(keys)
RECURSIVE Sorted(_)
Sorted(keys) ==
    IF keys = {} THEN <<>>
    ELSE LET m == CHOOSE x \in keys : \A y \in keys : x <= y
         IN  <<m>> \o Sorted(keys \ {m})

Put(map, key, value) ==
    [k \in DOMAIN map \cup {key} |-> IF k = key THEN value ELSE map[k]]

\* The locals of the analysis script before its first statement.
AggLocalsUnset ==
    /\ files = <<>>
    /\ fi = 1
    /\ party_groups = EmptyMap
    /\ unparsed = {}
    /\ sorted_party_nums = <<>>
    /\ gi = 1
    /\ log_n = 0
    /\ frames = <<>>
    /\ round1_times = <<>>
    /\ round2_times = <<>>
    /\ round1_send_times = <<>>
    /\ round1_recv_times = <<>>
    /\ round2_send_times = <<>>
    /\ round2_recv_times = <<>>
    /\ results = EmptyMap
    /\ csv = NoCsv

\* No analysis script is running.
AggIdle ==
    /\ variant = "root"
    /\ dir = <<>>
    /\ pc = "idle"
    /\ AggLocalsUnset

InitAgg ==
    /\ variant \in Variants
    /\ dir \in Directories
    /\ pc = "glob"
    /\ AggLocalsUnset
    /\ LaunchIdle
    /\ UploadIdle

(* ------------------- aggregation pipeline: steps ----------------------- *)

\* files = glob.glob(file_pattern); no file: return {} and nothing is saved.
Glob ==
    /\ pc = "glob"
    /\ files' = SelectSeq(dir, LAMBDA f : GlobMatch(file_pattern(variant), f))
    /\ pc' = IF files' = <<>> THEN "done" ELSE "group"
    /\ UNCHANGED <<launchVars, uploadVars>>
    /\ UNCHANGED <<variant, dir, fi, party_groups, unparsed, sorted_party_nums,
                   gi, log_n, frames, round1_times, round2_times,
                   round1_send_times, round1_recv_times, round2_send_times,
                   round2_recv_times, results, csv>>

\* One iteration of "for file in files": the party count is parsed from the
\* name and the file joins its group, or a ValueError is caught and the file
\* is only warned about.
GroupFile ==
    /\ pc = "group"
    /\ fi <= Len(files)
    /\ LET file        == files[fi]
           num_parties == ParsePartyCount(file)
       IN  IF num_parties.ok
           THEN /\ party_groups' =
                       Put(party_groups, num_parties.value,
                           IF num_parties.value \in DOMAIN party_groups
                           THEN Append(party_groups[num_parties.value], file)
                           ELSE <<file>>)
                /\ UNCHANGED unparsed
           ELSE /\ unparsed' = unparsed \cup {file}
                /\ UNCHANGED party_groups
    /\ fi' = fi + 1
    /\ UNCHANGED <<launchVars, uploadVars>>
    /\ UNCHANGED <<variant, dir, pc, files, sorted_party_nums, gi, log_n, frames,
                   round1_times, round2_times, round1_send_times,
                   round1_recv_times, round2_send_times, round2_recv_times,
                   results, csv>>

\* sorted_party_nums = sorted(party_groups.keys())
SortPartyNums ==
    /\ pc = "group"
    /\ fi > Len(files)
    /\ sorted_party_nums' = Sorted(DOMAIN party_groups)
    /\ gi' = 1
    /\ pc' = "begin"
    /\ UNCHANGED <<launchVars, uploadVars>>
    /\ UNCHANGED <<variant, dir, files, fi, party_groups, unparsed, log_n, frames,
                   round1_times, round2_times, round1_send_times,
                   round1_recv_times, round2_send_times, round2_recv_times,
                   results, csv>>

\* Head of "for num_parties in sorted_party_nums": the sample lists are made
\* afresh; the wan script first takes log_n, and math.log2 raises ValueError,
\* which nothing catches, for a party count below 1.
BeginGroup ==
    /\ pc = "begin"
    /\ gi <= Len(sorted_party_nums)
    /\ LET num_parties == sorted_party_nums[gi]
       IN  IF variant = "wan" /\ num_parties < 1
           THEN /\ pc' = "crashed"
                /\ UNCHANGED <<log_n, frames, round1_times, round2_times,
                               round1_send_times, round1_recv_times,
                               round2_send_times, round2_recv_times, fi>>
           ELSE /\ log_n' = IF variant = "wan" THEN RoundLog2(num_parties) ELSE 0
                /\ round1_times' = <<>>
                /\ round2_times' = <<>>
                /\ round1_send_times' = [i \in 1..log_n' |-> <<>>]
                /\ round1_recv_times' = [i \in 1..log_n' |-> <<>>]
                /\ round2_send_times' = [i \in 1..log_n' |-> <<>>]
                /\ round2_recv_times' = [i \in 1..log_n' |-> <<>>]
                /\ frames' = <<>>
                /\ fi' = 1
                /\ pc' = "read"
    /\ UNCHANGED <<launchVars, uploadVars>>
    /\ UNCHANGED <<variant, dir, files, party_groups, unparsed, sorted_party_nums,
                   gi, results, csv>>

\* One iteration of "for file in file_list": the file holds some frame; every
\* column is selected before any list is extended, so a file that raises
\* adds nothing.
ReadFile ==
    /\ pc = "read"
    /\ fi <= Len(party_groups[sorted_party_nums[gi]])
    /\ \E df \in Frames :
         /\ frames' = Append(frames, df)
         /\ IF FileFails(variant, df, log_n)
            THEN UNCHANGED <<round1_times, round2_times, round1_send_times,
                             round1_recv_times, round2_send_times, round2_recv_times>>
            ELSE LET m1 == round1_marker(variant)
                     m2 == round2_marker(variant)
                 IN  /\ round1_times' = round1_times \o RoundTimes(df, m1)
                     /\ round2_times' = round2_times \o RoundTimes(df, m2)
                     /\ round1_send_times' =
                          [i \in 1..log_n |-> round1_send_times[i] \o RoundSend(df, m1, i - 1)]
                     /\ round1_recv_times' =
                          [i \in 1..log_n |-> round1_recv_times[i] \o RoundRecv(df, m1, i - 1)]
                     /\ round2_send_times' =
                          [i \in 1..log_n |-> round2_send_times[i] \o RoundSend(df, m2, i - 1)]
                     /\ round2_recv_times' =
                          [i \in 1..log_n |-> round2_recv_times[i] \o RoundRecv(df, m2, i - 1)]
    /\ fi' = fi + 1
    /\ UNCHANGED <<launchVars, uploadVars>>
    /\ UNCHANGED <<variant, dir, pc, files, party_groups, unparsed,
                   sorted_party_nums, gi, log_n, results, csv>>

\* The seven per-peer averages of one round and direction: index i < log_n
\* averages its list, every other index keeps the initial 0.0.
PeerAvgSets(lists) ==
    [k \in 1..7 |-> IF k <= Len(lists) THEN AvgOf(lists[k]) ELSE {0}]

\* round1_send_avg[i] = ... with i >= 7 is an IndexError on a list of 7.
PeerIndexError ==
    \E k \in 8..log_n :
        \/ round1_send_times[k] # <<>>
        \/ round1_recv_times[k] # <<>>
        \/ round2_send_times[k] # <<>>
        \/ round2_recv_times[k] # <<>>

MinOf(times) == IF times = <<>> THEN 0 ELSE Min(times)

MaxOf(times) == IF times = <<>> THEN 0 ELSE Max(times)

\* The statistics of the current group, and results[num_parties] = {...}.
Reduce ==
    /\ pc = "read"
    /\ fi > Len(party_groups[sorted_party_nums[gi]])
    /\ IF variant = "wan" /\ PeerIndexError
       THEN /\ pc' = "crashed"
            /\ UNCHANGED <<results, gi>>
       ELSE /\ \E round1_avg \in AvgOf(round1_times), round2_avg \in AvgOf(round2_times),
                  round1_send_avg \in Choices(PeerAvgSets(round1_send_times)),
                  round1_recv_avg \in Choices(PeerAvgSets(round1_recv_times)),
                  round2_send_avg \in Choices(PeerAvgSets(round2_send_times)),
                  round2_recv_avg \in Choices(PeerAvgSets(round2_recv_times)) :
                 results' = Put(results, sorted_party_nums[gi],
                    CASE variant = "root" ->
                           [round1_avg |-> round1_avg,
                            round1_min |-> MinOf(round1_times),
                            round1_max |-> MaxOf(round1_times),
                            round1_count |-> Len(round1_times),
                            round2_avg |-> round2_avg,
                            round2_min |-> MinOf(round2_times),
                            round2_max |-> MaxOf(round2_times),
                            round2_count |-> Len(round2_times)]
                      [] variant = "lan" ->
                           [round1_avg |-> round1_avg,
                            round2_avg |-> round2_avg,
                            round1_count |-> Len(round1_times),
                            round2_count |-> Len(round2_times)]
                      [] variant = "wan" ->
                           [round1_avg |-> round1_avg,
                            round2_avg |-> round2_avg,
                            round1_count |-> Len(round1_times),
                            round2_count |-> Len(round2_times),
                            Round1SendToPeer_avg |-> round1_send_avg,
                            Round1RecvFromPeer_avg |-> round1_recv_avg,
                            Round2SendToPeer_avg |-> round2_send_avg,
                            Round2RecvFromPeer_avg |-> round2_recv_avg])
            /\ gi' = gi + 1
            /\ pc' = "begin"
    /\ UNCHANGED <<launchVars, uploadVars>>
    /\ UNCHANGED <<variant, dir, files, fi, party_groups, unparsed,
                   sorted_party_nums, log_n, frames, round1_times, round2_times,
                   round1_send_times, round1_recv_times, round2_send_times,
                   round2_recv_times, csv>>

(* ----------------------------- CSV writer ------------------------------ *)

RECURSIVE Digits(_)
Digits(n) ==
    IF n < 10 THEN <<DigitChars[n + 1]>>
    ELSE Digits(n \div 10) \o <<DigitChars[(n % 10) + 1]>>

Abs(x) == IF x < 0 THEN 0 - x ELSE x

RECURSIVE StripZeros(_)
StripZeros(s) ==
    IF Len(s) > 1 /\ s[Len(s)] = "0" THEN StripZeros(SubSeq(s, 1, Len(s) - 1)) ELSE s

\* The text to_csv writes for an integer cell.
FormatInt(n) == (IF n < 0 THEN <<"-">> ELSE <<>>) \o Digits(Abs(n))

\* The text to_csv writes for a float cell (ticks): the shortest decimal,
\* with at least one digit after the point.
FormatFloat(t) ==
    LET frac == Abs(t) % 10000
        pad  == [k \in 1..(4 - Len(Digits(frac))) |-> "0"] \o Digits(frac)
    IN  (IF t < 0 THEN <<"-">> ELSE <<>>)
        \o Digits(Abs(t) \div 10000) \o <<".">> \o StripZeros(pad)

IntCell(n) == [float |-> FALSE, val |-> n]

FloatCell(t) == [float |-> TRUE, val |-> t]

\* The 28 per-round-per-peer columns of the wan writer, as it lists them.
PeerColumns ==
    <<"Round1SendToPeer0_avg", "Round1SendToPeer1_avg", "Round1SendToPeer2_avg",
      "Round1SendToPeer3_avg", "Round1SendToPeer4_avg", "Round1SendToPeer5_avg",
      "Round1SendToPeer6_avg">>
    \o
    <<"Round1RecvFromPeer0_avg", "Round1RecvFromPeer1_avg", "Round1RecvFromPeer2_avg",
      "Round1RecvFromPeer3_avg", "Round1RecvFromPeer4_avg", "Round1RecvFromPeer5_avg",
      "Round1RecvFromPeer6_avg">>
    \o
    <<"Round2SendToPeer0_avg", "Round2SendToPeer1_avg", "Round2SendToPeer2_avg",
      "Round2SendToPeer3_avg", "Round2SendToPeer4_avg", "Round2SendToPeer5_avg",
      "Round2SendToPeer6_avg">>
    \o
    <<"Round2RecvFromPeer0_avg", "Round2RecvFromPeer1_avg", "Round2RecvFromPeer2_avg",
      "Round2RecvFromPeer3_avg", "Round2RecvFromPeer4_avg", "Round2RecvFromPeer5_avg",
      "Round2RecvFromPeer6_avg">>

\* Columns as it would be if the record counts were listed before the averages.
ColumnsCountsFirst(v) ==
    <<"NumParties", "Round1_Record_Count", "Round2_Record_Count",
      "Round1_Avg_Time_ms", "Round2_Avg_Time_ms">>
    \o (IF v = "wan" THEN PeerColumns ELSE <<>>)

Columns(v) ==
    CASE v = "root" ->
           <<"NumParties", "Round1_Avg_Time_ms", "Round1_Min_Time_ms",
             "Round1_Max_Time_ms", "Round1_Record_Count", "Round2_Avg_Time_ms",
             "Round2_Min_Time_ms", "Round2_Max_Time_ms", "Round2_Record_Count">>
      [] v = "lan" ->
           <<"NumParties", "Round1_Avg_Time_ms", "Round2_Avg_Time_ms",
             "Round1_Record_Count", "Round2_Record_Count">>
      [] v = "wan" ->
           <<"NumParties", "Round1_Avg_Time_ms", "Round2_Avg_Time_ms">>
           \o PeerColumns
           \o <<"Round1_Record_Count", "Round2_Record_Count">>

\* The dict appended to data for one group, in key order.
DataRow(v, num_parties, stats) ==
    CASE v = "root" ->
           <<IntCell(num_parties), FloatCell(stats.round1_avg),
             FloatCell(stats.round1_min), FloatCell(stats.round1_max),
             IntCell(stats.round1_count), FloatCell(stats.round2_avg),
             FloatCell(stats.round2_min), FloatCell(stats.round2_max),
             IntCell(stats.round2_count)>>
      [] v = "lan" ->
           <<IntCell(num_parties), FloatCell(stats.round1_avg),
             FloatCell(stats.round2_avg), IntCell(stats.round1_count),
             IntCell(stats.round2_count)>>
      [] v = "wan" ->
           <<IntCell(num_parties), FloatCell(stats.round1_avg),
             FloatCell(stats.round2_avg)>>
           \o [i \in 1..7 |-> FloatCell(stats.Round1SendToPeer_avg[i])]
           \o [i \in 1..7 |-> FloatCell(stats.Round1RecvFromPeer_avg[i])]
           \o [i \in 1..7 |-> FloatCell(stats.Round2SendToPeer_avg[i])]
           \o [i \in 1..7 |-> FloatCell(stats.Round2RecvFromPeer_avg[i])]
           \o <<IntCell(stats.round1_count), IntCell(stats.round2_count)>>

\* sorted(results.items(), key=lambda x: x[0])
sorted_results(res) == Sorted(DOMAIN res)

FormatCell(c) == IF c.float THEN FormatFloat(c.val) ELSE FormatInt(c.val)

\* pd.DataFrame(data).to_csv(output, index=False)
to_csv(v, res) ==
    LET keys == sorted_results(res)
    IN  [header |-> Columns(v),
         rows   |-> [k \in 1..Len(keys) |->
                       LET data == DataRow(v, keys[k], res[keys[k]])
                       IN  [c \in 1..Len(data) |-> FormatCell(data[c])]]]

\* End of the group loop: analyze_benchmark_results returns, and
\* "if analysis_results: save_results_to_csv(...)" writes the file.
SaveResults ==
    /\ pc = "begin"
    /\ gi > Len(sorted_party_nums)
    /\ csv' = IF DOMAIN results = {} THEN NoCsv ELSE to_csv(variant, results)
    /\ pc' = "done"
    /\ UNCHANGED <<launchVars, uploadVars>>
    /\ UNCHANGED <<variant, dir, files, fi, party_groups, unparsed,
                   sorted_party_nums, gi, log_n, frames, round1_times,
                   round2_times, round1_send_times, round1_recv_times,
                   round2_send_times, round2_recv_times, results>>

NextAgg ==
    \/ Glob
    \/ GroupFile
    \/ SortPartyNums
    \/ BeginGroup
    \/ ReadFile
    \/ Reduce
    \/ SaveResults

SpecAgg == InitAgg /\ [][NextAgg]_vars

(* ------------------- aggregation pipeline: claims ---------------------- *)

\* A group has just been reduced: its sample lists are still bound and its
\* statistics are in results.
Reduced == pc \in {"begin", "done"} /\ gi > 1

LastGroup == sorted_party_nums[gi - 1]

\* avg is a multiple of 0.001 ms within half of 0.001 ms of the exact mean.
IsMean3(avg, times) ==
    /\ avg % 10 = 0
    /\ 2 * Abs(avg * Len(times) - Sum(times)) <= 10 * Len(times)

\* C1: for every group and round the reported average is the arithmetic mean
\* of the collected samples rounded to 3 decimal places and the reported count
\* is the number of samples; with no sample the average is 0.0 and the count 0.
C1_MeanAndCount ==
    Reduced =>
        LET st == results[LastGroup]
        IN  /\ st.round1_count = Len(round1_times)
            /\ st.round2_count = Len(round2_times)
            /\ IF round1_times = <<>> THEN st.round1_avg = 0
               ELSE IsMean3(st.round1_avg, round1_times)
            /\ IF round2_times = <<>> THEN st.round2_avg = 0
               ELSE IsMean3(st.round2_avg, round2_times)

\* A reduced group whose first round needed rounding and whose second round
\* collected nothing.
C1_Witness ==
    /\ Reduced
    /\ round1_times # <<>>
    /\ Sum(round1_times) % (10 * Len(round1_times)) # 0
    /\ round2_times = <<>>
    /\ results[LastGroup].round2_avg = 0
    /\ results[LastGroup].round2_count = 0

\* The name holds a "p", then one or more digits, then "_".
CountTokens(name) ==
    {i \in 1..Len(name) :
        /\ name[i] = "p"
        /\ \E j \in (i + 2)..Len(name) :
              /\ name[j] = "_"
              /\ \A k \in (i + 1)..(j - 1) : IsDigit(name[k])}

\* The integer of the first p<digits>_ token of the name.
TokenValue(name) ==
    LET i == CHOOSE x \in CountTokens(name) : \A y \in CountTokens(name) : x <= y
        j == CHOOSE x \in (i + 2)..Len(name) :
                 name[x] = "_" /\ \A k \in (i + 1)..(x - 1) : IsDigit(name[k])
    IN  DigitsValue(SubSeq(name, i + 1, j - 1))

InGroup(f, n) == n \in DOMAIN party_groups /\ f \in Range(party_groups[n])

Grouped == pc \in {"begin", "read", "done", "crashed"}

\* C6: the party count of a discovered file is the integer between a literal
\* "p" and the next "_" of its name (prefix_p8_id3_wan.csv gives 8); a name
\* with no p<digits>_ token is in no group and is only warned about.
C6_FilenameParsing ==
    Grouped =>
        \A f \in Range(files) :
            IF CountTokens(f) # {}
            THEN InGroup(f, TokenValue(f))
            ELSE f \in unparsed /\ \A n \in DOMAIN party_groups : ~InGroup(f, n)

\* The samples the readable frames of a group hold for a round marker.
RECURSIVE Pooled(_, _)
Pooled(fs, marker) ==
    IF fs = <<>> THEN <<>>
    ELSE (IF FileFails(variant, Head(fs), log_n) THEN <<>>
          ELSE RoundTimes(Head(fs), marker)) \o Pooled(Tail(fs), marker)

\* The group of party count 4 is the two named files, each holding Round=1
\* rows 10.0, 20.0 and Round=2 rows 30.0, 40.0.
ScenarioOf(prefix) ==
    /\ Reduced
    /\ LastGroup = 4
    /\ Range(party_groups[4]) = {ResultName(prefix, <<"4">>, "0", Lan),
                                 ResultName(prefix, <<"4">>, "1", Lan)}
    /\ frames = <<ScenarioFrame, ScenarioFrame>>

ScenarioResult ==
    /\ results[4].round1_avg = 150000
    /\ results[4].round1_count = 4
    /\ results[4].round2_avg = 350000
    /\ results[4].round2_count = 4

\* C7 as stated: in every script the rows marked Round=1 of all files of a
\* party count feed Round1 and the rows marked Round=2 feed Round2, and
\* p4_id0_lan.csv with p4_id1_lan.csv give 15.0 (4) and 35.0 (4).
C7_AsStated ==
    /\ Reduced => round1_times = Pooled(frames, 1) /\ round2_times = Pooled(frames, 2)
    /\ ScenarioOf(<<>>) => ScenarioResult

\* C7 amended: the samples of a round are pooled over all readable files of a
\* party count; the lan and wan scripts feed Round1 from rows marked 1 and
\* Round2 from rows marked 2, src/avg_time.py feeds Round1 from rows marked 0
\* and Round2 from rows marked 1; the two scenario files under the names the
\* lan script globs (benchmark_results_p4_id{0,1}_lan.csv) give 15.0 (4) and
\* 35.0 (4), and p4_id{0,1}_lan.csv under src/avg_time.py give Round1 0.0 (0)
\* and Round2 15.0 (4).
C7_PooledByVariant ==
    /\ Reduced /\ variant \in {"lan", "wan"} =>
          round1_times = Pooled(frames, 1) /\ round2_times = Pooled(frames, 2)
    /\ Reduced /\ variant = "root" =>
          round1_times = Pooled(frames, 0) /\ round2_times = Pooled(frames, 1)
    /\ ScenarioOf(BenchmarkResults) /\ variant = "lan" => ScenarioResult
    /\ ScenarioOf(<<>>) =>
          /\ variant = "root"
          /\ results[4].round1_avg = 0
          /\ results[4].round1_count = 0
          /\ results[4].round2_avg = 150000
          /\ results[4].round2_count = 4

\* The lan script has reduced the two scenario files.
C7_Witness == ScenarioOf(BenchmarkResults) /\ variant = "lan" /\ ScenarioResult

\* What a reader of the written file gets back from the text of one cell:
\* text with a decimal point is a float, any other text an integer.
ParseCell(text) ==
    LET neg  == text # <<>> /\ text[1] = "-"
        body == IF neg THEN Tail(text) ELSE text
        dot  == Find(body, ".", 0)
        frac == Slice(body, dot + 1, Len(body))
        mag  == IF dot < 0 THEN DigitsValue(body)
                ELSE DigitsValue(Slice(body, 0, dot)) * 10000
                     + DigitsValue(frac \o [k \in 1..(4 - Len(frac)) |-> "0"])
    IN  [float |-> dot >= 0, val |-> IF neg THEN 0 - mag ELSE mag]

ReadCsv(file) ==
    [k \in 1..Len(file.rows) |->
        [c \in 1..Len(file.rows[k]) |-> ParseCell(file.rows[k][c])]]

Written == pc = "done" /\ csv.header # <<>>

\* C8: the written file holds exactly one row per party-count group, in
\* strictly ascending party-count order, and reading it back gives the same
\* order and the same numeric fields as the result set.
C8_CsvRoundTrip ==
    Written =>
        LET back == ReadCsv(csv)
        IN  /\ Len(back) = Cardinality(DOMAIN results)
            /\ {back[k][1].val : k \in 1..Len(back)} = DOMAIN results
            /\ \A i, j \in 1..Len(back) : i < j => back[i][1].val < back[j][1].val
            /\ \A k \in 1..Len(back) :
                  /\ Len(back[k]) = Len(csv.header)
                  /\ back[k] = DataRow(variant, back[k][1].val, results[back[k][1].val])

\* Two groups discovered in descending order of party count were written, one
\* of them with an average that has three decimals.
C8_Witness ==
    /\ Written
    /\ Len(csv.rows) = 2
    /\ Len(files) = 2
    /\ ParsePartyCount(files[1]).value > ParsePartyCount(files[2]).value
    /\ \E n \in DOMAIN results : results[n].round1_avg % 100 # 0

\* The least k with 2^k >= n.
CeilLog2(n) == CHOOSE k \in 0..15 : 2^k >= n /\ (k = 0 \/ 2^(k - 1) < n)

\* C9: for every party count N >= 1 the wan script reads and averages the
\* peer columns of exactly the indices 0 .. ceil(log2(N)) - 1.
C9_PeerIndexRange ==
    variant = "wan" /\ pc = "read" =>
        LET n == sorted_party_nums[gi]
        IN  /\ log_n = CeilLog2(n)
            /\ DOMAIN round1_send_times = 1..CeilLog2(n)
            /\ DOMAIN round1_recv_times = 1..CeilLog2(n)
            /\ DOMAIN round2_send_times = 1..CeilLog2(n)
            /\ DOMAIN round2_recv_times = 1..CeilLog2(n)

RecordCountColumns == {"Round1_Record_Count", "Round2_Record_Count"}

Round1Aggregates == {"Round1_Avg_Time_ms", "Round1_Min_Time_ms", "Round1_Max_Time_ms"}

Round2Aggregates == {"Round2_Avg_Time_ms", "Round2_Min_Time_ms", "Round2_Max_Time_ms"}

\* Place of a column in the declared order: round aggregate, per-peer
\* aggregate, record count; the party count and unknown names have none.
ColumnClass(c) ==
    IF c \in Round1Aggregates \cup Round2Aggregates THEN "round"
    ELSE IF c \in Range(PeerColumns) THEN "peer"
    ELSE IF c \in RecordCountColumns THEN "count"
    ELSE "other"

ClassesInOrder(h) ==
    /\ \A i \in 2..Len(h) : ColumnClass(h[i]) # "other"
    /\ \A i, j \in 2..Len(h) :
          i < j => <<ColumnClass(h[i]), ColumnClass(h[j])>> \notin
                      {<<"peer", "round">>, <<"count", "round">>, <<"count", "peer">>}

\* C10 as stated: in every script the written header has the party count
\* first, then the per-round aggregates, then the per-peer aggregates, then
\* the record counts, none of which precedes an aggregate.
C10_AsStated ==
    csv.header # <<>> =>
        /\ csv.header[1] = "NumParties"
        /\ ClassesInOrder(csv.header)

\* C10 amended: the party count is the first column and Round2's record count
\* the last in every script; the lan and wan scripts list the per-round
\* aggregates, then the per-peer aggregates, then both record counts; the
\* src/avg_time.py script lists each round's average, minimum and maximum
\* followed directly by that round's record count, so Round1's record count
\* precedes the Round2 aggregates.
C10_ColumnOrderByVariant ==
    csv.header # <<>> =>
        LET h == csv.header
        IN  /\ h[1] = "NumParties"
            /\ \A i \in 2..Len(h) : ColumnClass(h[i]) # "other"
            /\ h[Len(h)] = "Round2_Record_Count"
            /\ variant \in {"lan", "wan"} => ClassesInOrder(h)
            /\ variant = "wan" => \E i \in 1..Len(h) : ColumnClass(h[i]) = "peer"
            /\ variant = "root" =>
                  /\ Len(h) = 9
                  /\ {h[i] : i \in 2..4} = Round1Aggregates
                  /\ h[5] = "Round1_Record_Count"
                  /\ {h[i] : i \in 6..8} = Round2Aggregates

\* The src/avg_time.py script has written its summary.
C10_Witness == csv.header # <<>> /\ variant = "root" /\ Len(csv.rows) >= 1

\* The file parses: it is well-formed CSV and has the Round column, the
\* timing column of the script and, for the wan script, every peer column
\* below log_n.
Parseable(df) ==
    /\ df.parses
    /\ df.hasRound
    /\ df.timeCol = (IF variant = "wan" THEN "TotalTime_ms" ELSE "Time_ms")
    /\ variant = "wan" => df.npeer >= log_n

ParseableOf(fs) == SelectSeq(fs, Parseable)

\* The samples of the given kind that the frames hold, file after file.
RECURSIVE Flatten(_)
Flatten(lists) ==
    IF lists = <<>> THEN <<>> ELSE Head(lists) \o Flatten(Tail(lists))

Concat(fs, Samples(_)) == Flatten([k \in 1..Len(fs) |-> Samples(fs[k])])

\* The six sample lists are what the given frames alone give.
ListsAreFrom(fs) ==
    LET m1 == round1_marker(variant)
        m2 == round2_marker(variant)
    IN  /\ round1_times = Concat(fs, LAMBDA df : RoundTimes(df, m1))
        /\ round2_times = Concat(fs, LAMBDA df : RoundTimes(df, m2))
        /\ \A i \in 1..log_n :
              /\ round1_send_times[i] = Concat(fs, LAMBDA df : RoundSend(df, m1, i - 1))
              /\ round1_recv_times[i] = Concat(fs, LAMBDA df : RoundRecv(df, m1, i - 1))
              /\ round2_send_times[i] = Concat(fs, LAMBDA df : RoundSend(df, m2, i - 1))
              /\ round2_recv_times[i] = Concat(fs, LAMBDA df : RoundRecv(df, m2, i - 1))

\* C11: a file that fails to parse is skipped as a whole and adds no sample to
\* any per-round or per-round-per-peer list; the remaining files of the group
\* and the later groups are still processed, and the statistics of the group
\* are those of its parseable files alone.
C11_SkipUnparseable ==
    /\ pc = "read" => Len(frames) = fi - 1 /\ ListsAreFrom(ParseableOf(frames))
    /\ Reduced =>
          /\ Len(frames) = Len(party_groups[LastGroup])
          /\ ListsAreFrom(ParseableOf(frames))
          /\ LET m1 == round1_marker(variant)
                 m2 == round2_marker(variant)
                 s1 == Concat(ParseableOf(frames), LAMBDA df : RoundTimes(df, m1))
                 s2 == Concat(ParseableOf(frames), LAMBDA df : RoundTimes(df, m2))
                 st == results[LastGroup]
             IN  /\ st.round1_count = Len(s1)
                 /\ st.round2_count = Len(s2)
                 /\ IF s1 = <<>> THEN st.round1_avg = 0 ELSE IsMean3(st.round1_avg, s1)
                 /\ IF s2 = <<>> THEN st.round2_avg = 0 ELSE IsMean3(st.round2_avg, s2)
    /\ pc = "done" /\ files # <<>> => DOMAIN results = DOMAIN party_groups

\* A group of two files has been reduced whose first file failed to parse and
\* whose second file gave the group its samples.
C11_Witness ==
    /\ Reduced
    /\ Len(frames) = 2
    /\ ~Parseable(frames[1])
    /\ Parseable(frames[2])
    /\ results[LastGroup].round1_count > 0
    /\ results[LastGroup].round1_count = Len(RoundTimes(frames[2], round1_marker(variant)))

\* The average reported for one peer index: 0.0 for an index at or above
\* log_n and for an empty list, else the mean of the list to 3 decimals.
PeerAvgIs(avg, lists, k) ==
    IF k > log_n \/ lists[k] = <<>> THEN avg = 0 ELSE IsMean3(avg, lists[k])

\* C14: for every group the wan script reports an average for each peer index
\* 0..6 per round and direction, 0.0 where the index has no sample (every
\* index at or above log_n included), and no party count taken from a file
\* name makes the reduction raise or ends the analysis of the other groups.
C14_PeerReducer ==
    /\ pc # "crashed"
    /\ variant = "wan" /\ Reduced =>
          LET st == results[LastGroup]
          IN  /\ DOMAIN st.Round1SendToPeer_avg = 1..7
              /\ DOMAIN st.Round1RecvFromPeer_avg = 1..7
              /\ DOMAIN st.Round2SendToPeer_avg = 1..7
              /\ DOMAIN st.Round2RecvFromPeer_avg = 1..7
              /\ \A k \in 1..7 :
                    /\ PeerAvgIs(st.Round1SendToPeer_avg[k], round1_send_times, k)
                    /\ PeerAvgIs(st.Round1RecvFromPeer_avg[k], round1_recv_times, k)
                    /\ PeerAvgIs(st.Round2SendToPeer_avg[k], round2_send_times, k)
                    /\ PeerAvgIs(st.Round2RecvFromPeer_avg[k], round2_recv_times, k)

(* ------------------ launch pipeline: configuration --------------------- *)

\* Largest number of lines of a configuration file.
MaxConfigLines == 3

AddrA == <<"1", "0", ".", "0", ".", "0", ".", "1">>

AddrB == <<"1", "0", ".", "0", ".", "0", ".", "2">>

Loopback == <<"1", "2", "7", ".", "0", ".", "0", ".", "1">>

BlankLine == <<" ">>

\* The raw lines a configuration file can hold.
LinePool == {<<"0">>, <<"1">>, <<"2">>, AddrA, AddrB, BlankLine}

Configs ==
    {NoConfig, [exists |-> TRUE, readable |-> FALSE, lines |-> <<>>]}
    \cup {[exists |-> TRUE, readable |-> TRUE, lines |-> l] :
             l \in UNION {[1..n -> LinePool] : n \in 0..MaxConfigLines}}

\* str.strip() for text whose only white space is the blank.
RECURSIVE Strip(_)
Strip(s) ==
    IF s = <<>> THEN s
    ELSE IF Head(s) = " " THEN Strip(Tail(s))
    ELSE IF s[Len(s)] = " " THEN Strip(SubSeq(s, 1, Len(s) - 1))
    ELSE s

\* [line.strip() for line in f.readlines() if line.strip()]
StrippedLines(raw) ==
    LET stripped == [k \in 1..Len(raw) |-> Strip(raw[k])]
    IN  SelectSeq(stripped, LAMBDA l : l # <<>>)

Minimum(a, b) == IF a < b THEN a ELSE b

\* validate_config as it would be without the check for enough address lines.
validate_config_any_length(cfg) ==
    LET lines  == StrippedLines(cfg.lines)
        header == ParseInt(lines[1])
    IN  IF ~cfg.exists \/ ~cfg.readable \/ lines = <<>> THEN [valid |-> FALSE, num_parties |-> 0]
        ELSE IF ~header.ok THEN [valid |-> FALSE, num_parties |-> 0]
        ELSE [valid |-> TRUE, num_parties |-> header.value]

\* validate_config: (False, 0) for a missing, unreadable or empty file, a
\* first line that is no integer, or fewer lines than num_parties + 1.
validate_config(cfg) ==
    LET lines  == StrippedLines(cfg.lines)
        header == ParseInt(lines[1])
    IN  IF ~cfg.exists \/ ~cfg.readable \/ lines = <<>> THEN [valid |-> FALSE, num_parties |-> 0]
        ELSE IF ~header.ok THEN [valid |-> FALSE, num_parties |-> 0]
        ELSE IF Len(lines) < header.value + 1 THEN [valid |-> FALSE, num_parties |-> 0]
        ELSE [valid |-> TRUE, num_parties |-> header.value]

\* find_party_id as it would be if the scan kept the last match.
find_party_id_last(cfg, ip) ==
    LET lines   == StrippedLines(cfg.lines)
        header  == ParseInt(lines[1])
        scanned == 0..(Minimum(header.value, Len(lines) - 1) - 1)
        hits    == {i \in scanned : lines[i + 2] = ip}
    IN  IF ~cfg.exists \/ ~cfg.readable \/ lines = <<>> \/ ~header.ok
        THEN [none |-> TRUE, value |-> 0]
        ELSE IF hits = {} THEN [none |-> FALSE, value |-> 0]
        ELSE [none |-> FALSE, value |-> CHOOSE i \in hits : \A j \in hits : i >= j]

\* find_party_id: None when the file cannot be read, is empty or has a first
\* line that is no integer; else the first i in range(min(num_parties,
\* len(lines) - 1)) with lines[i + 1] == local_ip, and 0 when there is none.
find_party_id(cfg, ip) ==
    LET lines   == StrippedLines(cfg.lines)
        header  == ParseInt(lines[1])
        scanned == 0..(Minimum(header.value, Len(lines) - 1) - 1)
        hits    == {i \in scanned : lines[i + 2] = ip}
    IN  IF ~cfg.exists \/ ~cfg.readable \/ lines = <<>> \/ ~header.ok
        THEN [none |-> TRUE, value |-> 0]
        ELSE IF hits = {} THEN [none |-> FALSE, value |-> 0]
        ELSE [none |-> FALSE, value |-> CHOOSE i \in hits : \A j \in hits : i <= j]

\* What one way of asking for the local address gives: an exception, or a
\* (possibly empty) address.
Raised == [raised |-> TRUE, ip |-> <<>>]

Gave(ip) == [raised |-> FALSE, ip |-> ip]

HostnameOutcomes == {Raised, Gave(<<>>), Gave(Loopback), Gave(AddrA)}

ConnectionOutcomes == {Raised, Gave(Loopback), Gave(AddrB)}

Usable(o) == ~o.raised /\ o.ip # <<>> /\ o.ip # Loopback

\* get_local_ip as it would be with the socket probe listed first.
get_local_ip_probe_first(hostname, connection) ==
    IF Usable(connection) THEN connection.ip
    ELSE IF Usable(hostname) THEN hostname.ip
    ELSE Loopback

\* get_local_ip: the hostname lookup first, the socket probe second; the
\* first that gives a non-empty address other than 127.0.0.1, else 127.0.0.1.
get_local_ip(hostname, connection) ==
    IF Usable(hostname) THEN hostname.ip
    ELSE IF Usable(connection) THEN connection.ip
    ELSE Loopback

\* The methods get_local_ip calls: the loop returns at the first usable one.
methods_called(hostname, connection) ==
    IF Usable(hostname) THEN <<"hostname">> ELSE <<"hostname", "connection">>

LocalIps == {get_local_ip(h, c) : h \in HostnameOutcomes, c \in ConnectionOutcomes}

(* ---------------------- launch pipeline: upload ------------------------ *)

\* Largest number of entries of the working directory at upload time.
MaxResultFiles == 2

Absent == 0 - 1

\* What the file system and the server do during one upload_to_dufs call:
\* whether the local file exists and its size, the size the server holds for
\* the remote path (Absent when there is none), whether each HEAD request is
\* answered or raises, and how the PUT ends.  A request that is never sent
\* has outcome "none".
UploadOutcomes ==
    {o \in [local_exists : BOOLEAN, local_size : {1, 2}, remote_size : {Absent, 1, 2},
            head1 : {"none", "answered", "error"},
            head2 : {"none", "answered", "error"},
            put : {"none", "201", "500", "error"}] :
        IF ~o.local_exists
        THEN /\ o.local_size = 1 /\ o.remote_size = Absent
             /\ o.head1 = "none" /\ o.head2 = "none" /\ o.put = "none"
        ELSE /\ o.head1 # "none"
             /\ (o.head2 # "none") <=> (o.head1 = "answered" /\ o.remote_size # Absent)
             /\ (o.put = "none") <=>
                   (o.head1 = "answered" /\ o.head2 = "answered"
                    /\ o.remote_size = o.local_size)}

\* check_remote_file_exists: status 200 of an answered HEAD.
check_remote_file_exists(o) == o.head1 = "answered" /\ o.remote_size # Absent

\* compare_file_sizes as it would be with the comparison inverted.
compare_file_sizes_inverted(o) == o.head2 = "answered" /\ o.remote_size # o.local_size

\* compare_file_sizes: content-length of a second HEAD against the local size,
\* False when the request raises.
compare_file_sizes(o) == o.head2 = "answered" /\ o.remote_size = o.local_size

\* upload_to_dufs: the requests it sends and what it returns.
upload_to_dufs(o) ==
    IF ~o.local_exists THEN [requests |-> <<>>, result |-> FALSE]
    ELSE IF check_remote_file_exists(o)
    THEN IF compare_file_sizes(o)
         THEN [requests |-> <<"HEAD", "HEAD">>, result |-> TRUE]
         ELSE [requests |-> <<"HEAD", "HEAD", "PUT">>, result |-> o.put = "201"]
    ELSE [requests |-> <<"HEAD", "PUT">>, result |-> o.put = "201"]


ModeChars(mode) == IF mode = "wan" THEN <<"w", "a", "n">> ELSE <<"l", "a", "n">>

\* f"benchmark_results_p{num_parties}_id{party_id}_{network_mode}.csv"
filename_pattern(n, id, mode) ==
    BenchmarkResults \o <<"p">> \o FormatInt(n) \o <<"_", "i", "d">> \o FormatInt(id)
    \o <<"_">> \o ModeChars(mode) \o DotCsv

\* f"benchmark_results_p*_id{party_id}_*.csv"
alternative_pattern(id) ==
    BenchmarkResults \o <<"p", "*", "_", "i", "d">> \o FormatInt(id) \o <<"_", "*">> \o DotCsv

UploadNames ==
    {filename_pattern(2, 0, "wan"), filename_pattern(2, 0, "lan"),
     filename_pattern(2, 1, "wan"), filename_pattern(3, 0, "wan")}

CwdListings ==
    {d \in UNION {[1..n -> UploadNames] : n \in 0..MaxResultFiles} :
        \A i, j \in 1..Len(d) : i # j => d[i] # d[j]}

\* upload_results is about to be called with some arguments in some directory.
InitUpload ==
    /\ AggIdle
    /\ lpc = "upload"
    /\ env \in [DEPENDENCIES : {TRUE}, CONFIG_URL : {TRUE}, PROGRAM_URL : {FALSE},
                NETWORK_MODE : {"wan", "lan"}]
    /\ program_exists = TRUE
    /\ config = NoConfig
    /\ config_valid = TRUE
    /\ main_num_parties \in 1..2
    /\ local_ip = Loopback
    /\ methods = NoMethods
    /\ tried = <<>>
    /\ found = [none |-> FALSE, value |-> 0]
    /\ party_id \in 0..1
    /\ success = TRUE
    /\ upload_success = FALSE
    /\ exit_code = NotExited
    /\ events = <<>>
    /\ cwd \in CwdListings
    /\ upload_files = <<>>
    /\ ui = 1
    /\ success_count = 0
    /\ fail_count = 0
    /\ attempts = <<>>
    /\ last_upload = NoUpload

\* Head of upload_results: the exact file name, else the files of the
\* alternative pattern, else "return True".
BeginUpload ==
    /\ lpc = "upload"
    /\ LET exact == SelectSeq(cwd, LAMBDA f :
                       GlobMatch(filename_pattern(main_num_parties, party_id,
                                                  env.NETWORK_MODE), f))
           alternative_files ==
                    SelectSeq(cwd, LAMBDA f : GlobMatch(alternative_pattern(party_id), f))
           found_files == IF exact # <<>> THEN exact ELSE alternative_files
       IN  /\ upload_files' = found_files
           /\ attempts' = [k \in 1..Len(found_files) |-> <<>>]
           /\ IF found_files = <<>>
              THEN upload_success' = TRUE /\ lpc' = "upload_done"
              ELSE UNCHANGED upload_success /\ lpc' = "upload_loop"
    /\ ui' = 1
    /\ success_count' = 0
    /\ fail_count' = 0
    /\ UNCHANGED <<env, program_exists, config, config_valid, main_num_parties,
                   local_ip, methods, tried, found, party_id, success, exit_code, events>>
    /\ UNCHANGED <<cwd, last_upload>>
    /\ UNCHANGED aggVars

\* The upload loop as it would be if it stopped at the first failure.
LoopStopsOnFailure == ui <= Len(upload_files) /\ fail_count = 0

\* "for file in files" has a file left.
LoopContinues == ui <= Len(upload_files)

\* One iteration of "for file in files": upload_to_dufs and the two counters.
UploadFile ==
    /\ lpc = "upload_loop"
    /\ LoopContinues
    /\ \E o \in UploadOutcomes :
         LET r == upload_to_dufs(o)
         IN  /\ last_upload' = [exists |-> TRUE, outcome |-> o,
                                requests |-> r.requests, result |-> r.result]
             /\ success_count' = IF r.result THEN success_count + 1 ELSE success_count
             /\ fail_count' = IF r.result THEN fail_count ELSE fail_count + 1
             /\ attempts' = [attempts EXCEPT ![ui] = Append(@, r.result)]
    /\ ui' = ui + 1
    /\ UNCHANGED <<launchVars, cwd, upload_files>>
    /\ UNCHANGED aggVars

\* "return fail_count == 0"
FinishUpload ==
    /\ lpc = "upload_loop"
    /\ ~LoopContinues
    /\ upload_success' = (fail_count = 0)
    /\ lpc' = "upload_done"
    /\ UNCHANGED <<env, program_exists, config, config_valid, main_num_parties,
                   local_ip, methods, tried, found, party_id, success, exit_code, events>>
    /\ UNCHANGED uploadVars
    /\ UNCHANGED aggVars

NextUpload ==
    \/ BeginUpload
    \/ UploadFile
    \/ FinishUpload

SpecUpload == InitUpload /\ [][NextUpload]_vars

(* ------------------------- upload: claims ------------------------------ *)

Called == last_upload.exists /\ last_upload.outcome.local_exists

NoPut == \A k \in 1..Len(last_upload.requests) : last_upload.requests[k] # "PUT"

\* C3 as stated: whenever the length the server holds for the remote file
\* equals the local length, upload_to_dufs sends no PUT and returns True,
\* whatever the two HEAD probes do.
C3_AsStated ==
    Called /\ last_upload.outcome.remote_size = last_upload.outcome.local_size
        => NoPut /\ last_upload.result

ProbesReportSameSize ==
    /\ last_upload.outcome.head1 = "answered"
    /\ last_upload.outcome.remote_size # Absent
    /\ last_upload.outcome.head2 = "answered"
    /\ last_upload.outcome.remote_size = last_upload.outcome.local_size

\* C3 amended: upload_to_dufs sends no PUT and returns True exactly when the
\* existence probe is answered with status 200 and the size probe is answered
\* with a content-length equal to the local length; when either HEAD raises or
\* the existence probe is not answered 200 the file is PUT even though the
\* remote length equals the local one.
C3_SkipWhenProbesAgree ==
    Called =>
        /\ NoPut <=> ProbesReportSameSize
        /\ NoPut => last_upload.result
        /\ ~NoPut => last_upload.result = (last_upload.outcome.put = "201")

\* Both probes were answered, the sizes agree, and two HEAD requests were all
\* that was sent.
C3_Witness ==
    /\ Called
    /\ ProbesReportSameSize
    /\ last_upload.requests = <<"HEAD", "HEAD">>
    /\ last_upload.result

Failures(log) == Cardinality({k \in 1..Len(log) : log[k] # <<TRUE>>})

\* C4: every file of the batch is attempted exactly once whether or not an
\* earlier file failed, a failed file only adds one to the failure count, and
\* the batch reports success exactly when no file failed.
C4_BatchAttemptsAll ==
    /\ lpc = "upload_loop" =>
          /\ \A k \in 1..Len(upload_files) :
                Len(attempts[k]) = IF k < ui THEN 1 ELSE 0
          /\ success_count + fail_count = ui - 1
          /\ fail_count = Failures(SubSeq(attempts, 1, ui - 1))
    /\ lpc = "upload_done" =>
          /\ \A k \in 1..Len(upload_files) : Len(attempts[k]) = 1
          /\ success_count + fail_count = Len(upload_files)
          /\ fail_count = Failures(attempts)
          /\ upload_success = (fail_count = 0)

\* A batch of two files ended: the first failed, the second was still
\* uploaded, and the batch reports failure.
C4_Witness ==
    /\ lpc = "upload_done"
    /\ Len(upload_files) = 2
    /\ attempts = <<<<FALSE>>, <<TRUE>>>>
    /\ ~upload_success

(* ----------------------- launch pipeline: main ------------------------- *)

Envs ==
    [DEPENDENCIES : BOOLEAN, CONFIG_URL : BOOLEAN, PROGRAM_URL : BOOLEAN,
     NETWORK_MODE : {"wan", "lan"}]

InitLaunch ==
    /\ AggIdle
    /\ UploadIdle
    /\ lpc = "start"
    /\ env \in Envs
    /\ program_exists \in BOOLEAN
    /\ config = NoConfig
    /\ config_valid = FALSE
    /\ main_num_parties = 0
    /\ local_ip = <<>>
    /\ methods = NoMethods
    /\ tried = <<>>
    /\ found = [none |-> TRUE, value |-> 0]
    /\ party_id = 0
    /\ success = FALSE
    /\ upload_success = FALSE
    /\ exit_code = NotExited
    /\ events = <<>>

\* sys.exit as it would be if it always reported success.
ExitStatusZero(result) == 0

\* sys.exit(0 if success else 1)
ExitStatus(result) == IF result THEN 0 ELSE 1

\* main() returns result, or an exception other than KeyboardInterrupt
\* reaches the handler (result FALSE).
Exit(result) == lpc' = "exited" /\ exit_code' = ExitStatus(result)

\* check_dependencies and CONFIG_URL: either failing makes main return False.
StartMain ==
    /\ lpc = "start"
    /\ IF env.DEPENDENCIES /\ env.CONFIG_URL
       THEN /\ lpc' = "download_program"
            /\ UNCHANGED <<exit_code, events>>
       ELSE /\ Exit(FALSE)
            /\ events' = Append(events, "startup_failed")
    /\ UNCHANGED <<env, program_exists, config, config_valid, main_num_parties,
                   local_ip, methods, tried, found, party_id, success, upload_success>>
    /\ UNCHANGED <<aggVars, uploadVars>>

\* The optional program download: a failure is only warned about.
DownloadProgram ==
    /\ lpc = "download_program"
    /\ IF env.PROGRAM_URL
       THEN \E ok \in BOOLEAN :
              /\ program_exists' = (ok \/ program_exists)
              /\ events' = Append(events, IF ok THEN "program_download_ok"
                                          ELSE "program_download_failed")
       ELSE UNCHANGED <<program_exists, events>>
    /\ lpc' = "download_config"
    /\ UNCHANGED <<env, config, config_valid, main_num_parties, local_ip, methods, tried, found,
                   party_id, success, upload_success, exit_code>>
    /\ UNCHANGED <<aggVars, uploadVars>>

\* The config download: the served text is written to LOCAL_CONFIG, or main
\* returns False.
DownloadConfig ==
    /\ lpc = "download_config"
    /\ \/ /\ \E served \in Configs : served.exists /\ served.readable /\ config' = served
          /\ events' = Append(events, "config_download_ok")
          /\ lpc' = "validate"
          /\ UNCHANGED exit_code
       \/ /\ events' = Append(events, "config_download_failed")
          /\ Exit(FALSE)
          /\ UNCHANGED config
    /\ UNCHANGED <<env, program_exists, config_valid, main_num_parties, local_ip, methods, tried,
                   found, party_id, success, upload_success>>
    /\ UNCHANGED <<aggVars, uploadVars>>

\* config_valid, num_parties = validate_config(local_config)
ValidateConfig ==
    /\ lpc = "validate"
    /\ LET v == validate_config(config)
       IN  /\ config_valid' = v.valid
           /\ main_num_parties' = v.num_parties
           /\ IF v.valid
              THEN lpc' = "local_ip" /\ UNCHANGED <<exit_code, events>>
              ELSE Exit(FALSE) /\ events' = Append(events, "config_invalid")
    /\ UNCHANGED <<env, program_exists, config, local_ip, methods, tried, found, party_id, success,
                   upload_success>>
    /\ UNCHANGED <<aggVars, uploadVars>>

\* local_ip = get_local_ip()
GetLocalIp ==
    /\ lpc = "local_ip"
    /\ \E h \in HostnameOutcomes, c \in ConnectionOutcomes :
          /\ methods' = [hostname |-> h, connection |-> c]
          /\ tried' = methods_called(h, c)
          /\ local_ip' = get_local_ip(h, c)
    /\ lpc' = "find_party"
    /\ UNCHANGED <<env, program_exists, config, config_valid, main_num_parties,
                   found, party_id, success, upload_success, exit_code, events>>
    /\ UNCHANGED <<aggVars, uploadVars>>

\* party_id = find_party_id(local_config, local_ip), 0 when it returned None.
FindPartyId ==
    /\ lpc = "find_party"
    /\ found' = find_party_id(config, local_ip)
    /\ party_id' = IF found'.none THEN 0 ELSE found'.value
    /\ lpc' = "toggle_wan"
    /\ UNCHANGED <<env, program_exists, config, config_valid, main_num_parties,
                   local_ip, methods, tried, success, upload_success, exit_code, events>>
    /\ UNCHANGED <<aggVars, uploadVars>>

\* In wan mode ./network_config.sh is run with input "2\n"; subprocess.run
\* raising (script missing, timeout) leaves main as an exception.
NetworkWan ==
    /\ lpc = "toggle_wan"
    /\ IF env.NETWORK_MODE = "wan"
       THEN \E raises \in BOOLEAN :
              IF raises
              THEN Exit(FALSE) /\ events' = events \o <<"toggle_2", "exception">>
              ELSE /\ lpc' = "benchmark"
                   /\ events' = Append(events, "toggle_2")
                   /\ UNCHANGED exit_code
       ELSE lpc' = "benchmark" /\ UNCHANGED <<exit_code, events>>
    /\ UNCHANGED <<env, program_exists, config, config_valid, main_num_parties,
                   local_ip, methods, tried, found, party_id, success, upload_success>>
    /\ UNCHANGED <<aggVars, uploadVars>>

BenchmarkOutcomes == {"exit_0", "exit_nonzero", "timeout", "spawn_error"}

\* success = run_benchmark(...): False without running anything when the
\* program file is missing, else one run of the program, True for exit code 0.
RunBenchmark ==
    /\ lpc = "benchmark"
    /\ IF ~program_exists
       THEN /\ success' = FALSE
            /\ events' = Append(events, "benchmark_failed")
       ELSE \E outcome \in BenchmarkOutcomes :
              /\ success' = (outcome = "exit_0")
              /\ events' = events \o <<"benchmark",
                                       IF outcome = "exit_0" THEN "benchmark_ok"
                                       ELSE "benchmark_failed">>
    /\ lpc' = "toggle_lan"
    /\ UNCHANGED <<env, program_exists, config, config_valid, main_num_parties,
                   local_ip, methods, tried, found, party_id, upload_success, exit_code>>
    /\ UNCHANGED <<aggVars, uploadVars>>

\* NetworkLan as it would be if the reset to lan were made only after a
\* successful benchmark.
NetworkLanAfterSuccessOnly ==
    /\ lpc = "toggle_lan"
    /\ IF env.NETWORK_MODE = "wan" /\ success
       THEN \E raises \in BOOLEAN :
              IF raises
              THEN Exit(FALSE) /\ events' = events \o <<"toggle_5", "exception">>
              ELSE /\ lpc' = "report"
                   /\ events' = Append(events, "toggle_5")
                   /\ UNCHANGED exit_code
       ELSE lpc' = "report" /\ UNCHANGED <<exit_code, events>>
    /\ UNCHANGED <<env, program_exists, config, config_valid, main_num_parties,
                   local_ip, methods, tried, found, party_id, success, upload_success>>
    /\ UNCHANGED <<aggVars, uploadVars>>

\* In wan mode ./network_config.sh is run with input "5\n".
NetworkLan ==
    /\ lpc = "toggle_lan"
    /\ IF env.NETWORK_MODE = "wan"
       THEN \E raises \in BOOLEAN :
              IF raises
              THEN Exit(FALSE) /\ events' = events \o <<"toggle_5", "exception">>
              ELSE /\ lpc' = "report"
                   /\ events' = Append(events, "toggle_5")
                   /\ UNCHANGED exit_code
       ELSE lpc' = "report" /\ UNCHANGED <<exit_code, events>>
    /\ UNCHANGED <<env, program_exists, config, config_valid, main_num_parties,
                   local_ip, methods, tried, found, party_id, success, upload_success>>
    /\ UNCHANGED <<aggVars, uploadVars>>

\* What upload_to_dufs can return for a file.
FileResults == {upload_to_dufs(o).result : o \in UploadOutcomes}

\* "if success: upload_results(...)" as a whole, with any batch of files and
\* any result per file, and "return success".
ReportAndReturn ==
    /\ lpc = "report"
    /\ IF success
       THEN /\ \E n \in 0..MaxResultFiles : \E rs \in [1..n -> FileResults] :
                 upload_success' = \A k \in 1..n : rs[k]
            /\ events' = Append(events, "upload")
       ELSE UNCHANGED <<upload_success, events>>
    /\ Exit(success)
    /\ UNCHANGED <<env, program_exists, config, config_valid, main_num_parties,
                   local_ip, methods, tried, found, party_id, success>>
    /\ UNCHANGED <<aggVars, uploadVars>>

\* KeyboardInterrupt while main runs: sys.exit(1).
Interrupt ==
    /\ lpc \in {"start", "download_program", "download_config", "validate",
                "local_ip", "find_party", "toggle_wan", "benchmark", "toggle_lan",
                "report"}
    /\ lpc' = "exited"
    /\ exit_code' = 1
    /\ events' = Append(events, "interrupt")
    /\ UNCHANGED <<env, program_exists, config, config_valid, main_num_parties,
                   local_ip, methods, tried, found, party_id, success, upload_success>>
    /\ UNCHANGED <<aggVars, uploadVars>>

NextLaunch ==
    \/ StartMain
    \/ DownloadProgram
    \/ DownloadConfig
    \/ ValidateConfig
    \/ GetLocalIp
    \/ FindPartyId
    \/ NetworkWan
    \/ RunBenchmark
    \/ NetworkLan
    \/ ReportAndReturn
    \/ Interrupt

SpecLaunch == InitLaunch /\ [][NextLaunch]_vars

\* find_party_id is about to be called on some file with some address.
InitParty ==
    /\ AggIdle
    /\ UploadIdle
    /\ lpc = "find_party"
    /\ env \in [DEPENDENCIES : {TRUE}, CONFIG_URL : {TRUE}, PROGRAM_URL : {FALSE},
                NETWORK_MODE : {"wan", "lan"}]
    /\ program_exists = TRUE
    /\ config \in Configs
    /\ config_valid = FALSE
    /\ main_num_parties = 0
    /\ local_ip \in LocalIps
    /\ methods = NoMethods
    /\ tried = <<>>
    /\ found = [none |-> TRUE, value |-> 0]
    /\ party_id = 0
    /\ success = FALSE
    /\ upload_success = FALSE
    /\ exit_code = NotExited
    /\ events = <<>>

SpecParty == InitParty /\ [][FindPartyId]_vars

(* ------------------------- launch: claims ------------------------------ *)

\* The file can be read and starts, blank lines aside, with an integer.
HasPartyCount(cfg) ==
    /\ cfg.exists
    /\ cfg.readable
    /\ StrippedLines(cfg.lines) # <<>>
    /\ ParseInt(StrippedLines(cfg.lines)[1]).ok

\* The addresses the file lists for its N parties: the lines after the party
\* count, at most N of them, numbered from 0.
ListedAddresses(cfg) ==
    LET lines == StrippedLines(cfg.lines)
        n     == Minimum(ParseInt(lines[1]).value, Len(lines) - 1)
    IN  [i \in 0..(n - 1) |-> lines[i + 2]]

\* C2: when the local address equals the i-th listed address and none before
\* it, find_party_id returns i; when no listed address equals it, 0.
C2_FirstMatchWins ==
    lpc = "toggle_wan" /\ HasPartyCount(config) =>
        LET listed == ListedAddresses(config)
        IN  /\ ~found.none
            /\ \A i \in DOMAIN listed :
                  (listed[i] = local_ip /\ \A j \in DOMAIN listed : j < i => listed[j] # local_ip)
                      => found.value = i
            /\ (\A i \in DOMAIN listed : listed[i] # local_ip) => found.value = 0
            /\ party_id = found.value

\* The local address is the second listed address only, and 1 was returned.
C2_Witness ==
    /\ lpc = "toggle_wan"
    /\ HasPartyCount(config)
    /\ DOMAIN ListedAddresses(config) = {0, 1}
    /\ ListedAddresses(config)[0] # local_ip
    /\ ListedAddresses(config)[1] = local_ip
    /\ found = [none |-> FALSE, value |-> 1]

Logged(e) == \E k \in 1..Len(events) : events[k] = e

\* A validation, execution or unexpected-exception failure, a failed config
\* download, or an interrupt.
FatalFailure ==
    \/ Logged("startup_failed")
    \/ Logged("config_download_failed")
    \/ Logged("config_invalid")
    \/ Logged("benchmark_failed")
    \/ Logged("exception")
    \/ Logged("interrupt")

\* C5 as stated: the exit status is 1 after any validation failure, any
\* download failure, any benchmark failure, any unexpected exception and an
\* interrupt, and 0 otherwise.
C5_AsStated ==
    lpc = "exited" =>
        exit_code = IF FatalFailure \/ Logged("program_download_failed") THEN 1 ELSE 0

\* C5 amended: the exit status is 1 after any validation failure, a failed
\* download of the configuration, any benchmark failure, any unexpected
\* exception and an interrupt, and 0 otherwise; a failed download of the
\* optional program binary alone leaves it 0.
C5_ExitStatus ==
    /\ lpc = "exited" => exit_code = IF FatalFailure THEN 1 ELSE 0
    /\ lpc # "exited" => exit_code = NotExited

\* The program download failed, the benchmark ran the program already there,
\* the upload failed, and the status is 0.
C5_Witness ==
    /\ lpc = "exited"
    /\ exit_code = 0
    /\ Logged("program_download_failed")
    /\ Logged("benchmark_ok")
    /\ Logged("upload")
    /\ ~upload_success

\* The two strategies in the order of the claim: hostname lookup, then the
\* connectionless-socket probe.
Strategies == <<"hostname", "connection">>

StrategyGave(k) == IF k = 1 THEN methods.hostname ELSE methods.connection

\* The strategies that returned a non-empty address other than 127.0.0.1.
Yielding ==
    {k \in 1..2 : /\ ~StrategyGave(k).raised
                  /\ StrategyGave(k).ip # <<>>
                  /\ StrategyGave(k).ip # Loopback}

BrokenConfig(cfg) ==
    LET lines == StrippedLines(cfg.lines)
    IN  \/ ~cfg.exists
        \/ lines = <<>>
        \/ ~ParseInt(lines[1]).ok
        \/ Len(lines) - 1 < ParseInt(lines[1]).value

\* A network-mode toggle, a call of run_benchmark or an upload has happened.
PastConfiguration ==
    \/ Logged("toggle_2")
    \/ Logged("toggle_5")
    \/ Logged("benchmark")
    \/ Logged("benchmark_ok")
    \/ Logged("benchmark_failed")
    \/ Logged("upload")

\* The config download has failed, or validate_config has been given a
\* broken file.
ConfigErrorMet ==
    \/ Logged("config_download_failed")
    \/ Logged("config_download_ok") /\ lpc # "validate" /\ BrokenConfig(config)

\* main has ended; the program download failed, the configuration was sound
\* and nothing interrupted main or raised in it.
EndedAfterProgramFailureAlone ==
    /\ lpc = "exited"
    /\ Logged("program_download_failed")
    /\ Logged("config_download_ok")
    /\ ~BrokenConfig(config)
    /\ ~Logged("interrupt")
    /\ ~Logged("exception")

\* C13: when the config download fails, or the config file is missing, empty,
\* starts with a line that is no integer, or has fewer address lines than the
\* party count, main ends before any network-mode toggle, benchmark or upload
\* and the exit status is 1; a failed download of the optional program alone
\* does not end it: main goes on to run_benchmark.
C13_FatalConfigErrors ==
    /\ ConfigErrorMet => lpc = "exited" /\ exit_code = 1 /\ ~PastConfiguration
    /\ EndedAfterProgramFailureAlone =>
          Logged("benchmark_ok") \/ Logged("benchmark_failed")

\* The downloaded file announces two parties and lists one address: main has
\* ended with status 1 on the failed validation.
C13_Witness ==
    /\ lpc = "exited"
    /\ exit_code = 1
    /\ Logged("config_download_ok")
    /\ StrippedLines(config.lines) = <<<<"2">>, AddrA>>
    /\ events[Len(events)] = "config_invalid"

\* The positions of events at which e was logged.
At(e) == {k \in 1..Len(events) : events[k] = e}

\* run_benchmark has returned.
BenchmarkReturned == Logged("benchmark_ok") \/ Logged("benchmark_failed")

\* Every event of the first set has an event of the second set before it.
Preceded(later, earlier) ==
    \A k \in 1..Len(events) :
        events[k] \in later => \E j \in 1..(k - 1) : events[j] \in earlier

\* C15: in wan mode the toggle script is run with selection 2 before the
\* benchmark, the benchmark program is run at most once, and the toggle script
\* is run with selection 5 after run_benchmark has returned, whatever it
\* returned; in any other mode the toggle script is never run.
C15_ShapingAroundBenchmark ==
    /\ Cardinality(At("benchmark")) <= 1
    /\ env.NETWORK_MODE # "wan" => At("toggle_2") = {} /\ At("toggle_5") = {}
    /\ env.NETWORK_MODE = "wan" =>
          /\ Preceded({"benchmark", "benchmark_ok", "benchmark_failed"}, {"toggle_2"})
          /\ Preceded({"toggle_5"}, {"benchmark_ok", "benchmark_failed"})
          /\ BenchmarkReturned /\ lpc \in {"report", "exited"} /\ ~Logged("interrupt")
                => Logged("toggle_5")

\* In wan mode the program ran and failed, and the toggle script was run with
\* 2 before it and with 5 after it.
C15_Witness ==
    /\ env.NETWORK_MODE = "wan"
    /\ lpc = "report"
    /\ ~success
    /\ \E k \in 1..Len(events) :
          SubSeq(events, k, Len(events)) =
              <<"toggle_2", "benchmark", "benchmark_failed", "toggle_5">>

\* main holds the party id it gives to run_benchmark and upload_results.
PartyIdResolved == lpc \in {"toggle_wan", "benchmark", "toggle_lan", "report"}

\* C16: for every config file that validate_config accepts with party count N
\* the party id main gives to the benchmark and to the uploader is an integer
\* with 0 <= party_id < N, whether the local address matched, did not match,
\* or find_party_id returned None and the default was taken.
C16_PartyIdInRange ==
    PartyIdResolved /\ config_valid =>
        /\ party_id \in Int
        /\ 0 <= party_id
        /\ party_id < main_num_parties

=============================================================================
